---------------------------- MODULE Spec2Model ----------------------------
(***************************************************************************)
(* A model of the t38c geofence layer: the unified copy-by-value builder   *)
(* GeofenceQueryBuilder (geofence_query_builder.go), the fixed-shape       *)
(* Request builder and the streaming entry points Fence and Do             *)
(* (geofence.go).                                                          *)
(*                                                                         *)
(* Strings are TLA+ strings, so that strconv.Itoa, floatString and         *)
(* strings.Join are computed and not assumed.  A Go slice is a header      *)
(* (arr, len, cap) over a backing array kept in `heap`, so that two        *)
(* builder values copied from one another share storage exactly when the   *)
(* Go values do.  A float64 argument is a decimal with one fractional      *)
(* digit, held as its number of tenths (10 is 1.0, 335 is 33.5).           *)
(***************************************************************************)
EXTENDS Integers, Sequences, FiniteSets, TLC

VARIABLES
    heap,        \* backing arrays of the builder's slices: array id -> elements
    b1,          \* the builder value threaded through the chain of calls
    b2,          \* b1.Limit(5), once taken
    b3,          \* b1.Limit(10), once taken
    calls,       \* the calls made on the chain so far, oldest first
    cmd0,        \* b1's assembled command when the first branch was taken
    req,         \* the Request instance (one object, mutated in place)
    out,         \* the command last assembled from req
    objs,        \* the Request and RoamRequest instances: address -> fields
    refs,        \* the references the caller obtained, oldest first
    last,        \* the last setter call: method, reference, value, fields before
    mode,        \* the entry point under execution: "Fence" or "Do"
    startErr,    \* whether ExecuteStream fails to start the stream
    stream,      \* the payloads the transport yields before it closes
    pos,         \* how many of them have been received from the raw stream
    cancelled,   \* the caller's context is cancelled
    rawClosed,   \* the transport closed the raw stream on cancellation
    pc,          \* the calling task: start, recv, handler, inhandler, returned
    task,        \* Fence's background task: none, recv, send, exit, done
    hand,        \* the decoded event not yet enqueued or handled
    ch,          \* the events buffered in the output queue
    chClosed,    \* the output queue is closed
    got,         \* the events the consumer received from the queue
    seenClosed,  \* the consumer observed the queue closed
    handled,     \* the events the handler was invoked with
    ret,         \* what Fence or Do returned
    sent         \* the command handed to ExecuteStream

bvars == <<heap, b1, b2, b3, calls, cmd0>>

fvars == <<objs, refs, last>>

rvars == <<req, out, fvars>>

svars == <<mode, startErr, stream, pos, cancelled, rawClosed, pc, task, hand,
           ch, chClosed, got, seenClosed, handled, ret, sent>>

vars == <<bvars, rvars, svars>>

(***************************************************************************)
(* Bounds of the model.                                                    *)
(***************************************************************************)
MaxCalls == 3

MaxEvents == 13

MaxBad == 2

\* make(chan Response, 10)
ChanCap == 10

\* A builder or command variable that holds no value yet.
None == [absent |-> TRUE]

(***************************************************************************)
(* Command model and number formatting.                                    *)
(***************************************************************************)
NewCommand(name, args) == [Name |-> name, Args |-> args]

ZeroCommand == [Name |-> "", Args |-> <<>>]

Digit(d) ==
    CASE d = 0 -> "0" [] d = 1 -> "1" [] d = 2 -> "2" [] d = 3 -> "3"
      [] d = 4 -> "4" [] d = 5 -> "5" [] d = 6 -> "6" [] d = 7 -> "7"
      [] d = 8 -> "8" [] d = 9 -> "9"

RECURSIVE ItoaNat(_)
ItoaNat(n) == IF n < 10 THEN Digit(n) ELSE ItoaNat(n \div 10) \o Digit(n % 10)

\* strconv.Itoa: the decimal digits, with a leading minus sign below zero.
Itoa(n) == IF n < 0 THEN "-" \o ItoaNat(0 - n) ELSE ItoaNat(n)

\* floatString of a value given in tenths: the shortest decimal that reads
\* back as the value, so 10 (1.0) is "1" and 335 (33.5) is "33.5".
floatString(t) ==
    LET a == IF t < 0 THEN 0 - t ELSE t
        sign == IF t < 0 THEN "-" ELSE ""
    IN  IF a % 10 = 0
        THEN sign \o ItoaNat(a \div 10)
        ELSE sign \o ItoaNat(a \div 10) \o "." \o Digit(a % 10)

RECURSIVE JoinReversed(_, _)
JoinReversed(elems, sep) ==
    IF Len(elems) = 0 THEN ""
    ELSE IF Len(elems) = 1 THEN elems[1]
    ELSE JoinReversed(Tail(elems), sep) \o sep \o elems[1]

RECURSIVE Join(_, _)
\* strings.Join(elems, sep)
Join(elems, sep) ==
    IF Len(elems) = 0 THEN ""
    ELSE IF Len(elems) = 1 THEN elems[1]
    ELSE elems[1] \o sep \o Join(Tail(elems), sep)

(***************************************************************************)
(* Go slices.                                                              *)
(***************************************************************************)
NilSlice == [arr |-> 0, len |-> 0, cap |-> 0]

\* The elements a slice header sees: the first len slots of its array.
Elems(h, s) == IF s.len = 0 THEN <<>> ELSE SubSeq(h[s.arr], 1, s.len)

\* The capacity append allocates when the old one is too small: the needed
\* length when that is more than double, otherwise double (below 256
\* elements; the allocator's size classes leave these capacities as they
\* are for the 16-byte and 40-byte elements used here).
GrowCap(oldCap, newLen) ==
    IF newLen > 2 * oldCap THEN newLen ELSE 2 * oldCap

\* append(s, xs...): in place when the capacity allows, so that the write
\* is visible through every header over the same array; otherwise into a
\* fresh array holding a copy.  Returns the new heap and the new header.
GoAppend(h, s, xs, zero) ==
    LET n == s.len + Len(xs) IN
    IF Len(xs) = 0 THEN [heap |-> h, slice |-> s]
    ELSE IF n <= s.cap
    THEN [heap |-> [h EXCEPT ![s.arr] =
                       [i \in 1..s.cap |->
                          IF i > s.len /\ i <= n THEN xs[i - s.len] ELSE @[i]]],
          slice |-> [s EXCEPT !.len = n]]
    ELSE LET nc == GrowCap(s.cap, n)
             old == Elems(h, s)
         IN  [heap |-> Append(h, [i \in 1..nc |->
                          IF i <= s.len THEN old[i]
                          ELSE IF i <= n THEN xs[i - s.len] ELSE zero]),
              slice |-> [arr |-> Len(h) + 1, len |-> n, cap |-> nc]]

(***************************************************************************)
(* GeofenceQueryBuilder.                                                   *)
(***************************************************************************)
NoFormat == [Name |-> "", Args |-> <<>>]

newGeofenceQueryBuilder(cmd, key, area) ==
    [isRoamQuery |-> FALSE, cmd |-> cmd, key |-> key, area |-> area,
     target |-> "", pattern |-> "", meters |-> 0,
     outputFormat |-> NoFormat, detectActions |-> NilSlice,
     notifyCommands |-> NilSlice, searchOpts |-> NilSlice]

newGeofenceRoamQueryBuilder(key, target, pattern, meters) ==
    [isRoamQuery |-> TRUE, cmd |-> "", key |-> key, area |-> ZeroCommand,
     target |-> target, pattern |-> pattern, meters |-> meters,
     outputFormat |-> NoFormat, detectActions |-> NilSlice,
     notifyCommands |-> NilSlice, searchOpts |-> NilSlice]

RECURSIVE FlattenOpts(_)
\* for _, opt := range opts { args = append(args, opt.Name); args = append(args, opt.Args...) }
FlattenOpts(opts) ==
    IF Len(opts) = 0 THEN <<>>
    ELSE <<opts[1].Name>> \o opts[1].Args \o FlattenOpts(Tail(opts))

QArgsNoCommands(h, query) ==
    LET a1 == FlattenOpts(Elems(h, query.searchOpts)) \o <<"FENCE">>
        a2 == IF query.detectActions.len > 0
              THEN a1 \o <<"DETECT", Join(Elems(h, query.detectActions), ",")>>
              ELSE a1
    IN  IF Len(query.outputFormat.Name) > 0
        THEN a2 \o <<query.outputFormat.Name>> \o query.outputFormat.Args
        ELSE a2

\* GeofenceQueryBuilder.args
QArgs(h, query) ==
    LET a1 == FlattenOpts(Elems(h, query.searchOpts)) \o <<"FENCE">>
        a2 == IF query.detectActions.len > 0
              THEN a1 \o <<"DETECT", Join(Elems(h, query.detectActions), ",")>>
              ELSE a1
        a3 == IF query.notifyCommands.len > 0
              THEN a2 \o <<"COMMANDS", Join(Elems(h, query.notifyCommands), ",")>>
              ELSE a2
    IN  IF Len(query.outputFormat.Name) > 0
        THEN a3 \o <<query.outputFormat.Name>> \o query.outputFormat.Args
        ELSE a3

\* GeofenceQueryBuilder.toCmd
toCmd(h, query) ==
    IF query.isRoamQuery
    THEN NewCommand("NEARBY",
             <<query.key>> \o QArgs(h, query)
               \o <<"ROAM", query.target, query.pattern, Itoa(query.meters)>>)
    ELSE NewCommand(query.cmd,
             <<query.key>> \o QArgs(h, query)
               \o <<query.area.Name>> \o query.area.Args)

\* query.searchOpts = append(query.searchOpts, c); return query
AppendOpt(h, query, c) ==
    LET r == GoAppend(h, query.searchOpts, <<c>>, ZeroCommand)
    IN  [heap |-> r.heap, query |-> [query EXCEPT !.searchOpts = r.slice]]

QActions(h, query, actions) ==
    LET r == GoAppend(h, query.detectActions, actions, "")
    IN  [heap |-> r.heap, query |-> [query EXCEPT !.detectActions = r.slice]]

QCommands(h, query, notifyCommands) ==
    LET r == GoAppend(h, query.notifyCommands, notifyCommands, "")
    IN  [heap |-> r.heap, query |-> [query EXCEPT !.notifyCommands = r.slice]]

QAsc(h, query) == AppendOpt(h, query, NewCommand("ASC", <<>>))

QDesc(h, query) == AppendOpt(h, query, NewCommand("DESC", <<>>))

QNoFields(h, query) == AppendOpt(h, query, NewCommand("NOFIELDS", <<>>))

QClip(h, query) == AppendOpt(h, query, NewCommand("CLIP", <<>>))

QDistance(h, query) == AppendOpt(h, query, NewCommand("DISTANCE", <<>>))

QCursor(h, query, cursor) ==
    AppendOpt(h, query, NewCommand("CURSOR", <<Itoa(cursor)>>))

QLimit(h, query, limit) ==
    AppendOpt(h, query, NewCommand("LIMIT", <<Itoa(limit)>>))

QSparse(h, query, sparse) ==
    AppendOpt(h, query, NewCommand("SPARSE", <<Itoa(sparse)>>))

QWhere(h, query, field, min, max) ==
    AppendOpt(h, query,
        NewCommand("WHERE", <<field, floatString(min), floatString(max)>>))

\* The field parameter is not used by the body: the fragment is the count
\* and the values.
QWherein(h, query, field, values) ==
    LET args == <<Itoa(Len(values))>>
                  \o [i \in 1..Len(values) |-> floatString(values[i])]
    IN  AppendOpt(h, query, NewCommand("WHEREIN", args))

QMatch(h, query, pattern) ==
    AppendOpt(h, query, NewCommand("MATCH", <<pattern>>))

QFormat(h, query, fmt) ==
    [heap |-> h, query |-> [query EXCEPT !.outputFormat = fmt]]

(***************************************************************************)
(* Request: the fixed-shape builder.                                       *)
(***************************************************************************)
GeofenceWithin(key, area) ==
    [Cmd |-> "WITHIN", Key |-> key, Area |-> area,
     OutputFormat |-> NoFormat, DetectActions |-> <<>>, Options |-> <<>>]

GeofenceIntersects(key, area) ==
    [Cmd |-> "INTERSECTS", Key |-> key, Area |-> area,
     OutputFormat |-> NoFormat, DetectActions |-> <<>>, Options |-> <<>>]

GeofenceNearby(key, lat, lon, meters) ==
    [Cmd |-> "NEARBY", Key |-> key,
     Area |-> NewCommand("POINT",
                  <<floatString(lat), floatString(lon), floatString(meters)>>),
     OutputFormat |-> NoFormat, DetectActions |-> <<>>, Options |-> <<>>]

RECURSIVE AppendOptions(_, _)
\* for _, opt := range req.Options: the option's name, then its args
AppendOptions(args, opts) ==
    IF Len(opts) = 0 THEN args
    ELSE AppendOptions((args \o <<opts[1].Name>>) \o opts[1].Args, Tail(opts))

RECURSIVE JoinActionsSkipSep(_, _, _)
JoinActionsSkipSep(actions, acc, first) ==
    IF Len(actions) = 0 THEN acc
    ELSE JoinActionsSkipSep(Tail(actions), acc \o actions[1], FALSE)

RECURSIVE JoinActions(_, _, _)
\* for _, action := range req.DetectActions: a comma before every action
\* but the first
JoinActions(actions, acc, first) ==
    IF Len(actions) = 0 THEN acc
    ELSE JoinActions(Tail(actions),
                     (IF first THEN acc ELSE acc \o ",") \o actions[1], FALSE)

\* Request.GeofenceCommand
GeofenceCommand(r) ==
    LET a1 == AppendOptions(<<r.Key>>, r.Options) \o <<"FENCE">>
        a2 == IF Len(r.DetectActions) > 0
              THEN a1 \o <<"DETECT", JoinActions(r.DetectActions, "", TRUE)>>
              ELSE a1
        a3 == IF Len(r.OutputFormat.Name) > 0
              THEN (a2 \o <<r.OutputFormat.Name>>) \o r.OutputFormat.Args
              ELSE a2
    IN  NewCommand(r.Cmd, (a3 \o <<r.Area.Name>>) \o r.Area.Args)

\* Request.Actions
RActions(r, actions) == [r EXCEPT !.DetectActions = actions]

\* Request.WithOptions
RWithOptions(r, opts) == [r EXCEPT !.Options = opts]

\* Request.Format
RFormat(r, fmt) == [r EXCEPT !.OutputFormat = fmt]

(***************************************************************************)
(* RoamRequest: the fixed-shape builder of a moving-target fence.          *)
(***************************************************************************)
GeofenceRoam(key, target, pattern, meters) ==
    [Key |-> key, Target |-> target, Pattern |-> pattern, Meters |-> meters,
     OutputFormat |-> NoFormat, DetectActions |-> <<>>, Options |-> <<>>]

\* RoamRequest.GeofenceCommand with the ROAM tail put before the format.
RoamGeofenceCommandTailFirst(r) ==
    LET a1 == AppendOptions(<<r.Key>>, r.Options) \o <<"FENCE">>
        a2 == IF Len(r.DetectActions) > 0
              THEN a1 \o <<"DETECT", JoinActions(r.DetectActions, "", TRUE)>>
              ELSE a1
        a3 == a2 \o <<"ROAM", r.Target, r.Pattern, Itoa(r.Meters)>>
    IN  NewCommand("NEARBY",
            IF Len(r.OutputFormat.Name) > 0
            THEN (a3 \o <<r.OutputFormat.Name>>) \o r.OutputFormat.Args
            ELSE a3)

\* RoamRequest.GeofenceCommand
RoamGeofenceCommand(r) ==
    LET a1 == AppendOptions(<<r.Key>>, r.Options) \o <<"FENCE">>
        a2 == IF Len(r.DetectActions) > 0
              THEN a1 \o <<"DETECT", JoinActions(r.DetectActions, "", TRUE)>>
              ELSE a1
        a3 == IF Len(r.OutputFormat.Name) > 0
              THEN (a2 \o <<r.OutputFormat.Name>>) \o r.OutputFormat.Args
              ELSE a2
    IN  NewCommand("NEARBY",
            a3 \o <<"ROAM", r.Target, r.Pattern, Itoa(r.Meters)>>)

\* RoamRequest.Actions
RoamActions(r, actions) == [r EXCEPT !.DetectActions = actions]

\* RoamRequest.WithOptions
RoamWithOptions(r, opts) == [r EXCEPT !.Options = opts]

\* RoamRequest.Format
RoamFormat(r, fmt) == [r EXCEPT !.OutputFormat = fmt]

(***************************************************************************)
(* Instances behind references.  The constructors return a pointer to a    *)
(* fresh instance; a setter writes the field of the instance its receiver  *)
(* points to and returns that pointer.                                     *)
(***************************************************************************)
\* Whether an instance is a *RoamRequest (otherwise a *Request).
IsRoam(o) == "Target" \in DOMAIN o

\* GeofenceRequestable.GeofenceCommand: the method of the instance's type.
ObjCommand(o) ==
    IF IsRoam(o) THEN RoamGeofenceCommand(o) ELSE GeofenceCommand(o)

\* A setter that works on a copy and returns a pointer to the copy.
SetInCopy(store, p, o) == [objs |-> Append(store, o), ref |-> Len(store) + 1]

\* req.<field> = <value>; return req
SetIn(store, p, o) == [objs |-> [store EXCEPT ![p] = o], ref |-> p]

(***************************************************************************)
(* Event payloads.  A payload is well-formed JSON or not, and carries the  *)
(* number the transport gave it; decoding a well-formed payload gives the  *)
(* typed event with that number.                                           *)
(***************************************************************************)
Payload(wf, n) == [json |-> wf, body |-> n]

\* json.Unmarshal(event, &resp)
Unmarshal(event) ==
    IF event.json THEN [err |-> FALSE, resp |-> [ID |-> event.body]]
    ELSE [err |-> TRUE, resp |-> [ID |-> 0]]

(***************************************************************************)
(* Inputs.                                                                 *)
(***************************************************************************)
Keys == {"fleet"}

Areas == {NewCommand("GET", <<"cities", "tempe">>)}

Formats == {NewCommand("HASHES", <<"5">>)}

ActionLists == {<<"enter">>, <<"exit", "enter", "exit">>}

NotifyLists == {<<>>, <<"set", "del">>}

WhereinLists == {<<>>, <<10, 20, 30>>}

InitBuilders ==
    {newGeofenceQueryBuilder("WITHIN", k, a) : k \in Keys, a \in Areas}
      \cup {newGeofenceRoamQueryBuilder(k, "agent", "truck*", 500) : k \in Keys}

ReqKeys == {"fleet", ""}

ReqAreas == {NewCommand("GET", <<"cities", "tempe">>),
             NewCommand("BOUNDS", <<"33", "-112.5", "34", "-112">>)}

InitRequests ==
    {GeofenceWithin(k, a) : k \in ReqKeys, a \in ReqAreas}
      \cup {GeofenceIntersects(k, a) : k \in ReqKeys, a \in ReqAreas}
      \cup {GeofenceNearby(k, 335, -1120, 5000) : k \in ReqKeys}

ReqFormats == {NoFormat, NewCommand("POINTS", <<>>), NewCommand("HASHES", <<"5">>)}

ReqActionLists == {<<>>, <<"enter">>, <<"exit", "enter", "exit">>}

ReqOptionLists ==
    {<<>>,
     <<NewCommand("NOFIELDS", <<>>)>>,
     <<NewCommand("LIMIT", <<"5">>), NewCommand("MATCH", <<"truck*">>),
       NewCommand("LIMIT", <<"5">>)>>}

\* The streams of at most MaxEvents payloads, numbered in order, of which at
\* most MaxBad are malformed.
Streams ==
    UNION {
        {[i \in 1..n |-> Payload(i \notin bad, i)] :
            bad \in {S \in SUBSET (1..n) : Cardinality(S) <= MaxBad}}
        : n \in 0..MaxEvents}

NoResp == [ID |-> 0]

NoRet == [ch |-> "unset", err |-> "unset"]

(***************************************************************************)
(* The parts of the state a specification does not exercise stay as        *)
(* constructed.                                                            *)
(***************************************************************************)
IdleB ==
    /\ heap = <<>>
    /\ b1 = newGeofenceQueryBuilder("WITHIN", "fleet",
                NewCommand("GET", <<"cities", "tempe">>))
    /\ b2 = None
    /\ b3 = None
    /\ calls = <<>>
    /\ cmd0 = None

IdleR ==
    /\ req = GeofenceWithin("fleet", NewCommand("GET", <<"cities", "tempe">>))
    /\ out = None
    /\ objs = <<>>
    /\ refs = <<>>
    /\ last = None

IdleS ==
    /\ mode = "Fence"
    /\ startErr = FALSE
    /\ stream = <<>>
    /\ pos = 0
    /\ cancelled = FALSE
    /\ rawClosed = FALSE
    /\ pc = "start"
    /\ task = "none"
    /\ hand = NoResp
    /\ ch = <<>>
    /\ chClosed = FALSE
    /\ got = <<>>
    /\ seenClosed = FALSE
    /\ handled = <<>>
    /\ ret = NoRet
    /\ sent = None

(***************************************************************************)
(* The builder specification: a chain of at most MaxCalls calls threads    *)
(* b1 forward; then b1.Limit(5) and b1.Limit(10) are taken in either       *)
(* order.                                                                  *)
(***************************************************************************)
InitB ==
    /\ heap = <<>>
    /\ b1 \in InitBuilders
    /\ b2 = None
    /\ b3 = None
    /\ calls = <<>>
    /\ cmd0 = None
    /\ IdleR
    /\ IdleS

InChain == b1 # None /\ b2 = None /\ b3 = None /\ Len(calls) < MaxCalls

Chain(r, call) ==
    /\ heap' = r.heap
    /\ b1' = r.query
    /\ calls' = Append(calls, call)
    /\ UNCHANGED <<b2, b3, cmd0, rvars, svars>>

Asc == InChain /\ Chain(QAsc(heap, b1), [op |-> "Asc"])

Desc == InChain /\ Chain(QDesc(heap, b1), [op |-> "Desc"])

NoFields == InChain /\ Chain(QNoFields(heap, b1), [op |-> "NoFields"])

Clip == InChain /\ Chain(QClip(heap, b1), [op |-> "Clip"])

Distance == InChain /\ Chain(QDistance(heap, b1), [op |-> "Distance"])

Cursor ==
    /\ InChain
    /\ \E n \in {0} : Chain(QCursor(heap, b1, n), [op |-> "Cursor", n |-> n])

Limit ==
    /\ InChain
    /\ \E n \in {25} : Chain(QLimit(heap, b1, n), [op |-> "Limit", n |-> n])

Sparse ==
    /\ InChain
    /\ \E n \in {3} : Chain(QSparse(heap, b1, n), [op |-> "Sparse", n |-> n])

Where ==
    /\ InChain
    /\ \E f \in {"speed"}, lo \in {-15}, hi \in {705} :
          Chain(QWhere(heap, b1, f, lo, hi),
                [op |-> "Where", field |-> f, min |-> lo, max |-> hi])

Wherein ==
    /\ InChain
    /\ \E f \in {"speed"}, vs \in WhereinLists :
          Chain(QWherein(heap, b1, f, vs),
                [op |-> "Wherein", field |-> f, values |-> vs])

Match ==
    /\ InChain
    /\ \E p \in {"truck*"} :
          Chain(QMatch(heap, b1, p), [op |-> "Match", pattern |-> p])

Format ==
    /\ InChain
    /\ \E f \in Formats : Chain(QFormat(heap, b1, f), [op |-> "Format", fmt |-> f])

Actions ==
    /\ InChain
    /\ \E as \in ActionLists :
          Chain(QActions(heap, b1, as), [op |-> "Actions", actions |-> as])

Commands ==
    /\ InChain
    /\ \E cs \in NotifyLists :
          Chain(QCommands(heap, b1, cs), [op |-> "Commands", commands |-> cs])

\* b2 := b1.Limit(5)
BranchLimit5 ==
    /\ b1 # None
    /\ b2 = None
    /\ LET r == QLimit(heap, b1, 5)
       IN  /\ heap' = r.heap
           /\ b2' = r.query
    /\ cmd0' = IF b3 = None THEN toCmd(heap, b1) ELSE cmd0
    /\ UNCHANGED <<b1, b3, calls, rvars, svars>>

\* b3 := b1.Limit(10)
BranchLimit10 ==
    /\ b1 # None
    /\ b3 = None
    /\ LET r == QLimit(heap, b1, 10)
       IN  /\ heap' = r.heap
           /\ b3' = r.query
    /\ cmd0' = IF b2 = None THEN toCmd(heap, b1) ELSE cmd0
    /\ UNCHANGED <<b1, b2, calls, rvars, svars>>

NextB ==
    \/ Asc \/ Desc \/ NoFields \/ Clip \/ Distance
    \/ Cursor \/ Limit \/ Sparse \/ Where \/ Wherein \/ Match
    \/ Format \/ Actions \/ Commands
    \/ BranchLimit5 \/ BranchLimit10

SpecBuilder == InitB /\ [][NextB]_vars

(***************************************************************************)
(* The Request specification: the setters mutate the one instance, and     *)
(* GeofenceCommand assembles its command.                                  *)
(***************************************************************************)
InitR ==
    /\ req \in InitRequests
    /\ out = None
    /\ objs = <<>>
    /\ refs = <<>>
    /\ last = None
    /\ IdleB
    /\ IdleS

ReqActions ==
    /\ \E as \in ReqActionLists : req' = RActions(req, as)
    /\ UNCHANGED <<out, fvars, bvars, svars>>

ReqWithOptions ==
    /\ \E os \in ReqOptionLists : req' = RWithOptions(req, os)
    /\ UNCHANGED <<out, fvars, bvars, svars>>

ReqFormat ==
    /\ \E f \in ReqFormats : req' = RFormat(req, f)
    /\ UNCHANGED <<out, fvars, bvars, svars>>

ReqAssemble ==
    /\ out' = GeofenceCommand(req)
    /\ UNCHANGED <<req, fvars, bvars, svars>>

NextR == ReqActions \/ ReqWithOptions \/ ReqFormat \/ ReqAssemble

SpecRequest == InitR /\ [][NextR]_vars

(***************************************************************************)
(* The assembly specification: the caller constructs one builder, the      *)
(* unified one or a fixed-shape one, and makes at most MaxCalls calls on   *)
(* it.  A call on a fixed-shape builder is made through any reference the  *)
(* caller holds, and the reference it returns is kept.                     *)
(***************************************************************************)
InitRoams ==
    {GeofenceRoam(k, "agent", "truck*", 500) : k \in ReqKeys}
      \cup {GeofenceRoam("fleet", "agent", "truck*", -7)}

InitA ==
    /\ heap = <<>>
    /\ b2 = None
    /\ b3 = None
    /\ calls = <<>>
    /\ cmd0 = None
    /\ last = None
    /\ \/ /\ b1 \in {b \in InitBuilders : b.isRoamQuery}
          /\ objs = <<>>
          /\ refs = <<>>
       \/ /\ b1 = None
          /\ \E o \in InitRequests \cup InitRoams : objs = <<o>>
          /\ refs = <<1>>
    /\ req = GeofenceWithin("fleet", NewCommand("GET", <<"cities", "tempe">>))
    /\ out = None
    /\ IdleS

\* A setter call through a held reference p, giving the instance the
\* fields o: the instance is written and the returned reference kept.
FixCall(p, o, op, v) ==
    LET r == SetIn(objs, p, o)
    IN  /\ objs' = r.objs
        /\ refs' = Append(refs, r.ref)
        /\ last' = [op |-> op, ref |-> p, ret |-> r.ref, val |-> v,
                    before |-> objs[p]]
        /\ UNCHANGED <<req, out, bvars, svars>>

Held == {refs[i] : i \in 1..Len(refs)}

FixActions ==
    /\ Len(refs) <= MaxCalls
    /\ \E p \in Held, as \in ReqActionLists :
          FixCall(p, IF IsRoam(objs[p]) THEN RoamActions(objs[p], as)
                     ELSE RActions(objs[p], as), "Actions", as)

FixWithOptions ==
    /\ Len(refs) <= MaxCalls
    /\ \E p \in Held, os \in ReqOptionLists :
          FixCall(p, IF IsRoam(objs[p]) THEN RoamWithOptions(objs[p], os)
                     ELSE RWithOptions(objs[p], os), "WithOptions", os)

FixFormat ==
    /\ Len(refs) <= MaxCalls
    /\ \E p \in Held, f \in ReqFormats :
          FixCall(p, IF IsRoam(objs[p]) THEN RoamFormat(objs[p], f)
                     ELSE RFormat(objs[p], f), "Format", f)

NextF == FixActions \/ FixWithOptions \/ FixFormat

NextA == NextB \/ NextF

SpecAssembly == InitA /\ [][NextA]_vars

(***************************************************************************)
(* The streaming specification.  ExecuteStream either fails to start or    *)
(* yields `stream`, payload by payload, and then closes; when the context  *)
(* is cancelled the transport closes the raw stream at once and yields     *)
(* nothing more.  Fence runs a background task that feeds the output       *)
(* queue, from which a consumer receives whenever it cares to; Do iterates *)
(* on the calling task.                                                    *)
(***************************************************************************)
InitS ==
    /\ mode \in {"Fence", "Do"}
    /\ startErr \in BOOLEAN
    /\ stream \in Streams
    /\ pos = 0
    /\ cancelled = FALSE
    /\ rawClosed = FALSE
    /\ pc = "start"
    /\ task = "none"
    /\ hand = NoResp
    /\ ch = <<>>
    /\ chClosed = FALSE
    /\ got = <<>>
    /\ seenClosed = FALSE
    /\ handled = <<>>
    /\ ret = NoRet
    /\ sent = None
    /\ IdleB
    /\ IdleR

\* A receive on the raw stream reports it closed.
StreamEnded == rawClosed \/ pos = Len(stream)

\* FenceStart without the early return on a start error.
FenceStartNoErrCheck ==
    /\ mode = "Fence"
    /\ pc = "start"
    /\ sent' = GeofenceCommand(req)
    /\ ret' = [ch |-> "ch", err |-> "nil"]
    /\ task' = "recv"
    /\ pc' = "returned"
    /\ UNCHANGED <<mode, startErr, stream, pos, cancelled, rawClosed, hand, ch,
                   chClosed, got, seenClosed, handled, bvars, rvars>>

\* Fence, up to its return: the stream is started; on failure the error is
\* returned, otherwise the queue is made, the background task is started
\* and the queue is returned.
FenceStart ==
    /\ mode = "Fence"
    /\ pc = "start"
    /\ sent' = GeofenceCommand(req)
    /\ IF startErr
       THEN /\ ret' = [ch |-> "nil", err |-> "error"]
            /\ task' = task
       ELSE /\ ret' = [ch |-> "ch", err |-> "nil"]
            /\ task' = "recv"
    /\ pc' = "returned"
    /\ UNCHANGED <<mode, startErr, stream, pos, cancelled, rawClosed, hand, ch,
                   chClosed, got, seenClosed, handled, bvars, rvars>>

\* TaskRecv with `continue` where the code has `break`.
TaskRecvContinue ==
    /\ task = "recv"
    /\ ~StreamEnded
    /\ pos' = pos + 1
    /\ LET r == Unmarshal(stream[pos + 1])
       IN  IF r.err
           THEN task' = "recv" /\ hand' = hand
           ELSE task' = "send" /\ hand' = r.resp
    /\ UNCHANGED <<mode, startErr, stream, cancelled, rawClosed, pc, ch,
                   chClosed, got, seenClosed, handled, ret, sent, bvars, rvars>>

\* TaskRecv handing the zero Response of a failed decode to the queue before
\* it ends the loop.
TaskRecvSendsZero ==
    /\ task = "recv"
    /\ ~StreamEnded
    /\ pos' = pos + 1
    /\ LET r == Unmarshal(stream[pos + 1])
       IN  IF r.err
           THEN /\ task' = "exit"
                /\ hand' = hand
                /\ ch' = IF Len(ch) < ChanCap THEN Append(ch, r.resp) ELSE ch
           ELSE /\ task' = "send"
                /\ hand' = r.resp
                /\ ch' = ch
    /\ UNCHANGED <<mode, startErr, stream, cancelled, rawClosed, pc,
                   chClosed, got, seenClosed, handled, ret, sent, bvars, rvars>>

\* for event := range events: the next payload is received and decoded; a
\* payload that does not decode is logged and ends the loop.
TaskRecv ==
    /\ task = "recv"
    /\ ~StreamEnded
    /\ pos' = pos + 1
    /\ LET r == Unmarshal(stream[pos + 1])
       IN  IF r.err
           THEN task' = "exit" /\ hand' = hand
           ELSE task' = "send" /\ hand' = r.resp
    /\ UNCHANGED <<mode, startErr, stream, cancelled, rawClosed, pc, ch,
                   chClosed, got, seenClosed, handled, ret, sent, bvars, rvars>>

\* The raw stream is closed: the loop ends.
TaskEnd ==
    /\ task = "recv"
    /\ StreamEnded
    /\ task' = "exit"
    /\ UNCHANGED <<mode, startErr, stream, pos, cancelled, rawClosed, pc, hand,
                   ch, chClosed, got, seenClosed, handled, ret, sent, bvars, rvars>>

\* TaskSend putting the event at the head of the queue.
TaskSendFront ==
    /\ task = "send"
    /\ Len(ch) < ChanCap
    /\ ch' = <<hand>> \o ch
    /\ hand' = NoResp
    /\ task' = "recv"
    /\ UNCHANGED <<mode, startErr, stream, pos, cancelled, rawClosed, pc,
                   chClosed, got, seenClosed, handled, ret, sent, bvars, rvars>>

\* TaskSend as a non-blocking send: select { case ch <- resp: default: }.
TaskSendNoBlock ==
    /\ task = "send"
    /\ ch' = IF Len(ch) < ChanCap THEN Append(ch, hand) ELSE ch
    /\ hand' = NoResp
    /\ task' = "recv"
    /\ UNCHANGED <<mode, startErr, stream, pos, cancelled, rawClosed, pc,
                   chClosed, got, seenClosed, handled, ret, sent, bvars, rvars>>

\* ch <- resp: blocks while the queue holds ChanCap events.
TaskSend ==
    /\ task = "send"
    /\ Len(ch) < ChanCap
    /\ ch' = Append(ch, hand)
    /\ hand' = NoResp
    /\ task' = "recv"
    /\ UNCHANGED <<mode, startErr, stream, pos, cancelled, rawClosed, pc,
                   chClosed, got, seenClosed, handled, ret, sent, bvars, rvars>>

\* The task returning without the deferred close.
TaskCloseSkipped ==
    /\ task = "exit"
    /\ task' = "done"
    /\ UNCHANGED <<mode, startErr, stream, pos, cancelled, rawClosed, pc, hand,
                   ch, chClosed, got, seenClosed, handled, ret, sent, bvars, rvars>>

\* defer close(ch)
TaskClose ==
    /\ task = "exit"
    /\ chClosed' = TRUE
    /\ task' = "done"
    /\ UNCHANGED <<mode, startErr, stream, pos, cancelled, rawClosed, pc, hand,
                   ch, got, seenClosed, handled, ret, sent, bvars, rvars>>

\* The consumer receives the oldest buffered event.
ConsumerRecv ==
    /\ ret.ch = "ch"
    /\ Len(ch) > 0
    /\ got' = Append(got, Head(ch))
    /\ ch' = Tail(ch)
    /\ UNCHANGED <<mode, startErr, stream, pos, cancelled, rawClosed, pc, task,
                   hand, chClosed, seenClosed, handled, ret, sent, bvars, rvars>>

\* The consumer's receive on the drained, closed queue reports closure.
ConsumerSeesClosed ==
    /\ ret.ch = "ch"
    /\ Len(ch) = 0
    /\ chClosed
    /\ ~seenClosed
    /\ seenClosed' = TRUE
    /\ UNCHANGED <<mode, startErr, stream, pos, cancelled, rawClosed, pc, task,
                   hand, ch, chClosed, got, handled, ret, sent, bvars, rvars>>

\* Do, up to the loop: the stream is started; on failure a wrapped error is
\* returned.
DoStart ==
    /\ mode = "Do"
    /\ pc = "start"
    /\ sent' = toCmd(heap, b1)
    /\ IF startErr
       THEN /\ ret' = [ch |-> "none", err |-> "error"]
            /\ pc' = "returned"
       ELSE /\ ret' = ret
            /\ pc' = "recv"
    /\ UNCHANGED <<mode, startErr, stream, pos, cancelled, rawClosed, task, hand,
                   ch, chClosed, got, seenClosed, handled, bvars, rvars>>

\* DoRecv that logs a decode failure and goes on to the next payload.
DoRecvContinue ==
    /\ mode = "Do"
    /\ pc = "recv"
    /\ ~StreamEnded
    /\ pos' = pos + 1
    /\ LET r == Unmarshal(stream[pos + 1])
       IN  IF r.err
           THEN /\ ret' = ret
                /\ pc' = "recv"
                /\ hand' = hand
           ELSE /\ ret' = ret
                /\ pc' = "handler"
                /\ hand' = r.resp
    /\ UNCHANGED <<mode, startErr, stream, cancelled, rawClosed, task, ch,
                   chClosed, got, seenClosed, handled, sent, bvars, rvars>>

\* for event := range events: the next payload is received and decoded; a
\* payload that does not decode makes Do return a wrapped error.
DoRecv ==
    /\ mode = "Do"
    /\ pc = "recv"
    /\ ~StreamEnded
    /\ pos' = pos + 1
    /\ LET r == Unmarshal(stream[pos + 1])
       IN  IF r.err
           THEN /\ ret' = [ch |-> "none", err |-> "error"]
                /\ pc' = "returned"
                /\ hand' = hand
           ELSE /\ ret' = ret
                /\ pc' = "handler"
                /\ hand' = r.resp
    /\ UNCHANGED <<mode, startErr, stream, cancelled, rawClosed, task, ch,
                   chClosed, got, seenClosed, handled, sent, bvars, rvars>>

\* DoHandlerCall as `go handler(resp)`: the loop goes on while the handler
\* has not run.
DoHandlerCallAsync ==
    /\ mode = "Do"
    /\ pc = "handler"
    /\ pc' = "recv"
    /\ UNCHANGED <<mode, startErr, stream, pos, cancelled, rawClosed, task, hand,
                   ch, chClosed, got, seenClosed, handled, ret, sent, bvars, rvars>>

\* handler(resp) is called.
DoHandlerCall ==
    /\ mode = "Do"
    /\ pc = "handler"
    /\ handled' = Append(handled, hand)
    /\ pc' = "inhandler"
    /\ UNCHANGED <<mode, startErr, stream, pos, cancelled, rawClosed, task, hand,
                   ch, chClosed, got, seenClosed, ret, sent, bvars, rvars>>

\* handler(resp) returns.
DoHandlerReturn ==
    /\ mode = "Do"
    /\ pc = "inhandler"
    /\ hand' = NoResp
    /\ pc' = "recv"
    /\ UNCHANGED <<mode, startErr, stream, pos, cancelled, rawClosed, task, ch,
                   chClosed, got, seenClosed, handled, ret, sent, bvars, rvars>>

\* The raw stream is closed: return nil.
DoEnd ==
    /\ mode = "Do"
    /\ pc = "recv"
    /\ StreamEnded
    /\ ret' = [ch |-> "none", err |-> "nil"]
    /\ pc' = "returned"
    /\ UNCHANGED <<mode, startErr, stream, pos, cancelled, rawClosed, task, hand,
                   ch, chClosed, got, seenClosed, handled, sent, bvars, rvars>>

\* A stream is established when ExecuteStream returned without error.
Established == pc # "start" /\ ~startErr

\* The caller cancels the context of an established stream.
Cancel ==
    /\ Established
    /\ ~cancelled
    /\ cancelled' = TRUE
    /\ UNCHANGED <<mode, startErr, stream, pos, rawClosed, pc, task, hand, ch,
                   chClosed, got, seenClosed, handled, ret, sent, bvars, rvars>>

\* The transport closes the raw stream of a cancelled context.
TransportClose ==
    /\ cancelled
    /\ ~rawClosed
    /\ rawClosed' = TRUE
    /\ UNCHANGED <<mode, startErr, stream, pos, cancelled, pc, task, hand, ch,
                   chClosed, got, seenClosed, handled, ret, sent, bvars, rvars>>

TaskStep == TaskRecv \/ TaskEnd \/ TaskSend \/ TaskClose

Next ==
    \/ FenceStart \/ TaskRecv \/ TaskEnd \/ TaskSend \/ TaskClose
    \/ ConsumerRecv \/ ConsumerSeesClosed
    \/ DoStart \/ DoRecv \/ DoHandlerCall \/ DoHandlerReturn \/ DoEnd
    \/ Cancel \/ TransportClose

Spec == InitS /\ [][Next]_vars

\* The scheduler runs a goroutine that can take a step; the consumer and
\* the caller's cancellation are under no obligation.
FairSpec == Spec /\ WF_vars(TaskStep) /\ WF_vars(TransportClose)

\* The scheduler runs the background task whenever it can take a step, and
\* the consumer keeps receiving from the queue it was returned.
ConsumerStep == ConsumerRecv \/ ConsumerSeesClosed

FairDelivery == Spec /\ WF_vars(TaskStep) /\ WF_vars(ConsumerStep)

(***************************************************************************)
(* Reading an assembled command.                                           *)
(***************************************************************************)
\* The tokens frag occur in args, adjacent and in order.
HasFragment(args, frag) ==
    \E i \in 0..(Len(args) - Len(frag)) :
        \A j \in 1..Len(frag) : args[i + j] = frag[j]

\* The arguments between the key and FENCE of a command whose options hold
\* no FENCE token: the search option fragments.
OptionPart(args) ==
    LET f == CHOOSE i \in 1..Len(args) :
                 args[i] = "FENCE" /\ \A j \in 1..(i - 1) : args[j] # "FENCE"
    IN  SubSeq(args, 2, f - 1)

IsSuffix(s, t) ==
    Len(s) <= Len(t) /\ SubSeq(t, Len(t) - Len(s) + 1, Len(t)) = s

(***************************************************************************)
(* C1: builder value independence.  When b2 := b1.Limit(5) and             *)
(* b3 := b1.Limit(10) have both been taken from b1 (in either order), the  *)
(* command assembled from b2 contains LIMIT 5 and not LIMIT 10, the one    *)
(* assembled from b3 contains LIMIT 10 and not LIMIT 5, and b1 assembles   *)
(* the command it assembled before both calls.                             *)
(***************************************************************************)
C1_ValueIndependence ==
    (b2 # None /\ b3 # None) =>
        /\ HasFragment(toCmd(heap, b2).Args, <<"LIMIT", "5">>)
        /\ ~HasFragment(toCmd(heap, b2).Args, <<"LIMIT", "10">>)
        /\ HasFragment(toCmd(heap, b3).Args, <<"LIMIT", "10">>)
        /\ ~HasFragment(toCmd(heap, b3).Args, <<"LIMIT", "5">>)
        /\ toCmd(heap, b1) = cmd0

(***************************************************************************)
(* Reading a stream.                                                       *)
(***************************************************************************)
IsPrefix(s, t) == Len(s) <= Len(t) /\ SubSeq(t, 1, Len(s)) = s

HasBad(s) == \E i \in 1..Len(s) : ~s[i].json

\* The place of the first malformed payload of a stream that has one.
FirstBad(s) == CHOOSE i \in 1..Len(s) : ~s[i].json /\ \A j \in 1..(i - 1) : s[j].json

\* The events of the payloads before the first malformed one.
GoodPrefix(s) ==
    LET n == IF HasBad(s) THEN FirstBad(s) - 1 ELSE Len(s)
    IN  [i \in 1..n |-> [ID |-> s[i].body]]

\* The payloads received from the raw stream so far.
Received == SubSeq(stream, 1, pos)

\* Every event ever put on the output queue, oldest first.
Enqueued == got \o ch

\* The decoded event the background task holds and has not enqueued.
InHand == IF task = "send" THEN <<hand>> ELSE <<>>

(***************************************************************************)
(* C2: Fence, decode failure.  The events enqueued are always a prefix of  *)
(* the decoded payloads that precede the first malformed payload; once the *)
(* malformed payload has been received the task has left its loop, has     *)
(* read nothing after it, and the enqueued events are exactly those        *)
(* decoded payloads; nothing keeps a task that left its loop from closing  *)
(* the queue, and the queue is closed exactly when the task is done; the   *)
(* consumer is handed a queue and a nil error, never an error value.       *)
(***************************************************************************)
C2_FenceDecodeFailure ==
    mode = "Fence" =>
        /\ IsPrefix(Enqueued, GoodPrefix(stream))
        /\ (HasBad(stream) /\ pos >= FirstBad(stream)) =>
              /\ pos = FirstBad(stream)
              /\ task \in {"exit", "done"}
              /\ Enqueued = GoodPrefix(stream)
        /\ task = "exit" => ENABLED TaskClose
        /\ task = "done" <=> chClosed
        /\ ret.ch = "ch" => ret.err = "nil"

C2_Witness ==
    /\ mode = "Fence"
    /\ HasBad(stream)
    /\ FirstBad(stream) = 3
    /\ Len(stream) >= 5
    /\ stream[4].json
    /\ task = "done"
    /\ seenClosed
    /\ Len(got) = 2

(***************************************************************************)
(* C3: Do, decode failure.  The handler is only ever invoked, once each    *)
(* and in order, for the payloads before the first malformed one; once the *)
(* malformed payload has been received Do has returned a non-nil error,    *)
(* has read nothing after it, and the handler has been invoked for exactly *)
(* the payloads before it.                                                 *)
(***************************************************************************)
C3_DoDecodeFailure ==
    mode = "Do" =>
        /\ IsPrefix(handled, GoodPrefix(stream))
        /\ (HasBad(stream) /\ pos >= FirstBad(stream)) =>
              /\ pos = FirstBad(stream)
              /\ pc = "returned"
              /\ ret.err = "error"
              /\ handled = GoodPrefix(stream)

C3_Witness ==
    /\ mode = "Do"
    /\ ~startErr
    /\ HasBad(stream)
    /\ FirstBad(stream) = 3
    /\ Len(stream) >= 5
    /\ stream[4].json
    /\ pc = "returned"
    /\ ret.err = "error"
    /\ Len(handled) = 2

(***************************************************************************)
(* C4: stream-start failure.  When ExecuteStream fails, Fence has returned *)
(* the error and no queue and has started no background task, and Do has   *)
(* returned a non-nil error; no payload is read and the handler is not     *)
(* invoked.                                                                *)
(***************************************************************************)
C4_StartFailure ==
    (startErr /\ pc # "start") =>
        /\ pc = "returned"
        /\ ret.err = "error"
        /\ mode = "Fence" => ret.ch = "nil"
        /\ task = "none"
        /\ ~chClosed
        /\ Enqueued = <<>>
        /\ pos = 0
        /\ handled = <<>>

C4_Witness ==
    /\ startErr
    /\ pc = "returned"
    /\ ret = [ch |-> "nil", err |-> "error"]
    /\ Len(stream) > 0

(***************************************************************************)
(* C5: Fence ordering.  In every state the events the consumer has         *)
(* received are a prefix of the events decoded, one for one, from the      *)
(* payloads received from the raw stream.                                  *)
(***************************************************************************)
C5_FenceOrdering ==
    mode = "Fence" => IsPrefix(got, GoodPrefix(Received))

C5_Witness ==
    /\ mode = "Fence"
    /\ Len(got) >= 3
    /\ Len(ch) >= 2
    /\ task = "send"

(***************************************************************************)
(* C6: Fence bounded backpressure.  The queue never holds more than        *)
(* ChanCap events; while it holds ChanCap and the task has an event to     *)
(* enqueue, the task can take no step (it reads nothing from the stream);  *)
(* and the events received, buffered and in hand are, in order, exactly    *)
(* the events decoded from the payloads received: none is dropped or       *)
(* overwritten.                                                            *)
(***************************************************************************)
C6_BoundedBackpressure ==
    mode = "Fence" =>
        /\ Len(ch) <= ChanCap
        /\ (task = "send" /\ Len(ch) = ChanCap) => ~ENABLED TaskStep
        /\ (got \o ch) \o InHand = GoodPrefix(Received)

C6_Witness ==
    /\ mode = "Fence"
    /\ Len(ch) = ChanCap
    /\ task = "send"
    /\ pos < Len(stream)
    /\ Len(got) >= 1

(***************************************************************************)
(* C7: cancellation terminates the Fence background task.  Once the        *)
(* context of an established stream is cancelled and the transport has     *)
(* closed the raw stream, the background task eventually is done and the   *)
(* output queue closed, whatever the consumer does.                        *)
(***************************************************************************)
C7_CancelTerminates ==
    (mode = "Fence" /\ Established /\ cancelled /\ rawClosed)
        ~> (task = "done" /\ chClosed)

(***************************************************************************)
(* C8: Do, clean stream.  With a stream of well-formed payloads, every     *)
(* handler invocation is for the next payload in stream order, the handler *)
(* has been invoked for every payload read but the one just decoded, so    *)
(* that an invocation returns before the next read; no background task     *)
(* runs; and Do returns a nil error, after the handler was invoked for     *)
(* every payload the stream yielded.                                       *)
(***************************************************************************)
C8_DoCleanStream ==
    (mode = "Do" /\ ~startErr /\ ~HasBad(stream)) =>
        /\ handled = [i \in 1..Len(handled) |-> [ID |-> stream[i].body]]
        /\ Len(handled) = IF pc = "handler" THEN pos - 1 ELSE pos
        /\ task = "none"
        /\ pc = "returned" =>
              /\ ret.err = "nil"
              /\ StreamEnded
              /\ ~cancelled => Len(handled) = Len(stream)

C8_Witness ==
    /\ mode = "Do"
    /\ ~HasBad(stream)
    /\ Len(stream) >= 3
    /\ pc = "returned"
    /\ ret.err = "nil"
    /\ Len(handled) = Len(stream)

(***************************************************************************)
(* C9: Wherein assembly.  When the last call of the chain is               *)
(* Wherein(field, v1..vn), the search options of the assembled command end *)
(* with WHEREIN, field, n, v1, ..., vn.                                    *)
(***************************************************************************)
C9_WhereinFragment ==
    (b2 = None /\ b3 = None /\ Len(calls) > 0 /\ calls[Len(calls)].op = "Wherein") =>
        LET c == calls[Len(calls)]
            frag == <<"WHEREIN", c.field, Itoa(Len(c.values))>>
                      \o [i \in 1..Len(c.values) |-> floatString(c.values[i])]
        IN  IsSuffix(frag, OptionPart(toCmd(heap, b1).Args))

(***************************************************************************)
(* C10: Request assembly.  The command assembled from a Request has the    *)
(* stored cmd as its name, and as its arguments the key, each option's     *)
(* name and args in the supplied order, FENCE, DETECT and the joined       *)
(* actions when there is an action, the format name and args when the      *)
(* format name is not empty, the area name and the area args; a            *)
(* GeofenceWithin request with nothing set assembles to key, FENCE, area.  *)
(***************************************************************************)
RECURSIVE OptionTokens(_, _)
OptionTokens(opts, n) ==
    IF n = 0 THEN <<>>
    ELSE (OptionTokens(opts, n - 1) \o <<opts[n].Name>>) \o opts[n].Args

ExpectedRequestArgs(r) ==
    <<r.Key>>
      \o OptionTokens(r.Options, Len(r.Options))
      \o <<"FENCE">>
      \o (IF r.DetectActions # <<>>
          THEN <<"DETECT", Join(r.DetectActions, ",")>> ELSE <<>>)
      \o (IF r.OutputFormat.Name # ""
          THEN <<r.OutputFormat.Name>> \o r.OutputFormat.Args ELSE <<>>)
      \o <<r.Area.Name>>
      \o r.Area.Args

C10_RequestAssembly ==
    /\ GeofenceCommand(req).Name = req.Cmd
    /\ GeofenceCommand(req).Args = ExpectedRequestArgs(req)
    /\ \A k \in ReqKeys, a \in ReqAreas :
          GeofenceCommand(GeofenceWithin(k, a)) =
              [Name |-> "WITHIN", Args |-> <<k, "FENCE", a.Name>> \o a.Args]
    /\ out # None => (out.Name = req.Cmd /\ out.Args[1] = req.Key)

C10_Witness ==
    /\ out = GeofenceCommand(req)
    /\ Len(req.Options) = 3
    /\ Len(req.DetectActions) = 3
    /\ req.OutputFormat.Name = "HASHES"
    /\ req.Cmd = "INTERSECTS"

(***************************************************************************)
(* C11: RoamRequest assembly.  Through every reference to a RoamRequest,   *)
(* after any calls of Actions, WithOptions and Format, the assembled       *)
(* command is named NEARBY, its first argument is the key, and its last    *)
(* four arguments are ROAM, the target, the pattern and the meters in      *)
(* decimal.                                                                *)
(***************************************************************************)
\* The decimal numerals of the meters the roam requests are built with.
DecimalMeters(m) == CASE m = 500 -> "500" [] m = -7 -> "-7"

C11_RoamAssembly ==
    \A p \in Held :
        IsRoam(objs[p]) =>
            LET o == objs[p]
                c == ObjCommand(o)
                n == Len(c.Args)
            IN  /\ c.Name = "NEARBY"
                /\ n >= 6
                /\ c.Args[1] = o.Key
                /\ SubSeq(c.Args, n - 3, n) =
                      <<"ROAM", o.Target, o.Pattern, DecimalMeters(o.Meters)>>

C11_Witness ==
    /\ Len(refs) = 4
    /\ IsRoam(objs[refs[4]])
    /\ objs[refs[4]].Meters = -7
    /\ Len(objs[refs[4]].Options) = 3
    /\ Len(objs[refs[4]].DetectActions) = 3
    /\ objs[refs[4]].OutputFormat.Name = "HASHES"

(***************************************************************************)
(* C12: the DETECT token.  In all three builders (Request, RoamRequest,    *)
(* GeofenceQueryBuilder), when the list of detect actions is not empty the *)
(* assembled command holds DETECT immediately after FENCE, followed by one *)
(* token: the actions joined with "," in input order, duplicates kept.     *)
(* When the list is empty the command holds no DETECT token.  The list of  *)
(* a Request or RoamRequest is the one its last Actions call passed; the   *)
(* list of the unified builder is what its Actions calls passed, in call   *)
(* order.                                                                  *)
(***************************************************************************)
RECURSIVE CommaJoined(_)
CommaJoined(A) ==
    IF Len(A) = 1 THEN A[1] ELSE (A[1] \o ",") \o CommaJoined(Tail(A))

RECURSIVE ActionsPassed(_)
\* The lists the Actions calls of a chain passed, in call order.
ActionsPassed(cs) ==
    IF Len(cs) = 0 THEN <<>>
    ELSE (IF cs[1].op = "Actions" THEN cs[1].actions ELSE <<>>)
           \o ActionsPassed(Tail(cs))

HasFence(args) == \E i \in 1..Len(args) : args[i] = "FENCE"

FirstFence(args) ==
    CHOOSE i \in 1..Len(args) :
        args[i] = "FENCE" /\ \A j \in 1..(i - 1) : args[j] # "FENCE"

DetectTokenOK(args, A) ==
    IF Len(A) > 0
    THEN LET f == FirstFence(args)
         IN  /\ HasFence(args)
             /\ Len(args) >= f + 2
             /\ args[f + 1] = "DETECT"
             /\ args[f + 2] = CommaJoined(A)
             /\ \A i \in 1..Len(args) : args[i] = "DETECT" => i = f + 1
             /\ \A i \in 1..Len(args) : args[i] = CommaJoined(A) => i = f + 2
    ELSE /\ HasFence(args)
         /\ \A i \in 1..Len(args) : args[i] # "DETECT"

C12_DetectToken ==
    /\ \A p \in Held :
          DetectTokenOK(ObjCommand(objs[p]).Args, objs[p].DetectActions)
    /\ \A b \in {b1, b2, b3} \ {None} :
          DetectTokenOK(toCmd(heap, b).Args, ActionsPassed(calls))

C12_Witness ==
    /\ b1 # None
    /\ b1.isRoamQuery
    /\ ActionsPassed(calls) = <<"exit", "enter", "exit", "enter">>
    /\ HasFragment(toCmd(heap, b1).Args,
                   <<"FENCE", "DETECT", "exit,enter,exit,enter">>)

(***************************************************************************)
(* C13: unified builder assembly.  For every builder value reached by a    *)
(* chain of builder calls, toCmd returns: the key; the search option       *)
(* fragment of every refinement call of the chain, one per call, in call   *)
(* order; FENCE; DETECT and the joined actions if any are set; COMMANDS    *)
(* and the joined notify tags if any are set; the format's name and args   *)
(* if its name is not empty; then ROAM, target, pattern, decimal meters    *)
(* under the name NEARBY for a roam query, else the area's name and args   *)
(* under the stored cmd.  The fragment of a call is the one the method     *)
(* builds from the call's arguments.  b1 is reached by the chain calls, b2 *)
(* by calls followed by Limit(5), b3 by calls followed by Limit(10).       *)
(***************************************************************************)
\* The builder value the call leaves when made on a builder that has no
\* search options yet.
CallOnFresh(c) ==
    LET q == newGeofenceQueryBuilder("WITHIN", "k", ZeroCommand)
    IN  CASE c.op = "Asc" -> QAsc(<<>>, q)
          [] c.op = "Desc" -> QDesc(<<>>, q)
          [] c.op = "NoFields" -> QNoFields(<<>>, q)
          [] c.op = "Clip" -> QClip(<<>>, q)
          [] c.op = "Distance" -> QDistance(<<>>, q)
          [] c.op = "Cursor" -> QCursor(<<>>, q, c.n)
          [] c.op = "Limit" -> QLimit(<<>>, q, c.n)
          [] c.op = "Sparse" -> QSparse(<<>>, q, c.n)
          [] c.op = "Where" -> QWhere(<<>>, q, c.field, c.min, c.max)
          [] c.op = "Wherein" -> QWherein(<<>>, q, c.field, c.values)
          [] c.op = "Match" -> QMatch(<<>>, q, c.pattern)
          [] c.op = "Format" -> QFormat(<<>>, q, c.fmt)
          [] c.op = "Actions" -> QActions(<<>>, q, c.actions)
          [] c.op = "Commands" -> QCommands(<<>>, q, c.commands)

\* The fragment the call builds: none for Format, Actions and Commands.
FragmentOf(c) ==
    LET r == CallOnFresh(c) IN Elems(r.heap, r.query.searchOpts)

RECURSIVE ChainFragments(_)
ChainFragments(cs) ==
    IF Len(cs) = 0 THEN <<>>
    ELSE FragmentOf(cs[1]) \o ChainFragments(Tail(cs))

RECURSIVE CommandsPassed(_)
CommandsPassed(cs) ==
    IF Len(cs) = 0 THEN <<>>
    ELSE (IF cs[1].op = "Commands" THEN cs[1].commands ELSE <<>>)
           \o CommandsPassed(Tail(cs))

RECURSIVE FormatPassed(_)
\* The format of the chain's last Format call.
FormatPassed(cs) ==
    IF Len(cs) = 0 THEN NoFormat
    ELSE IF cs[Len(cs)].op = "Format" THEN cs[Len(cs)].fmt
    ELSE FormatPassed(SubSeq(cs, 1, Len(cs) - 1))

ExpectedBuilderArgs(b, cs) ==
    <<b.key>>
      \o OptionTokens(ChainFragments(cs), Len(ChainFragments(cs)))
      \o <<"FENCE">>
      \o (IF ActionsPassed(cs) # <<>>
          THEN <<"DETECT", CommaJoined(ActionsPassed(cs))>> ELSE <<>>)
      \o (IF CommandsPassed(cs) # <<>>
          THEN <<"COMMANDS", CommaJoined(CommandsPassed(cs))>> ELSE <<>>)
      \o (IF FormatPassed(cs).Name # ""
          THEN <<FormatPassed(cs).Name>> \o FormatPassed(cs).Args ELSE <<>>)
      \o (IF b.isRoamQuery
          THEN <<"ROAM", b.target, b.pattern, DecimalMeters(b.meters)>>
          ELSE <<b.area.Name>> \o b.area.Args)

AssemblesChain(b, cs) ==
    /\ toCmd(heap, b).Name = (IF b.isRoamQuery THEN "NEARBY" ELSE b.cmd)
    /\ toCmd(heap, b).Args = ExpectedBuilderArgs(b, cs)

C13_BuilderAssembly ==
    /\ b1 # None => AssemblesChain(b1, calls)
    /\ b2 # None => AssemblesChain(b2, Append(calls, [op |-> "Limit", n |-> 5]))
    /\ b3 # None => AssemblesChain(b3, Append(calls, [op |-> "Limit", n |-> 10]))

(***************************************************************************)
(* C14: the COMMANDS capability gap.  After any sequence of Actions,       *)
(* WithOptions and Format calls, the command a Request or RoamRequest      *)
(* assembles holds no COMMANDS token (no option fragment passed here is    *)
(* named COMMANDS).  The command of a unified builder holds a COMMANDS     *)
(* token if and only if at least one notify command was passed to its      *)
(* Commands calls; a Commands call that passes none does not count.        *)
(***************************************************************************)
HasToken(args, t) == \E i \in 1..Len(args) : args[i] = t

C14_CommandsOnlyUnified ==
    /\ \A p \in Held : ~HasToken(ObjCommand(objs[p]).Args, "COMMANDS")
    /\ \A b \in {b1, b2, b3} \ {None} :
          HasToken(toCmd(heap, b).Args, "COMMANDS")
              <=> (\E i \in 1..Len(calls) :
                      /\ calls[i].op = "Commands"
                      /\ Len(calls[i].commands) >= 1)

\* A unified builder has been passed notify commands after a Commands call
\* that passed none.
C14_Witness ==
    /\ b1 # None
    /\ Len(calls) = 3
    /\ calls[1].op = "Commands" /\ calls[1].commands = <<>>
    /\ calls[2].op = "Actions"
    /\ calls[3].op = "Commands" /\ calls[3].commands = <<"set", "del">>
    /\ HasFragment(toCmd(heap, b1).Args,
                   <<"FENCE", "DETECT", "enter", "COMMANDS", "set,del">>)

(***************************************************************************)
(* C15: Fence, end of stream indistinguishable.  A stream that is the      *)
(* well-formed payloads P and then closes, and a stream that is P, a       *)
(* malformed payload and anything after it, have the same P as their       *)
(* payloads before the first malformed one.  What the consumer observes    *)
(* through the output queue is decided by that P alone, so both runs give  *)
(* the same observations: the events received are always the first events  *)
(* of P, in order; closure is observed only on the drained queue, once;    *)
(* and when the stream was neither cancelled nor closed by the transport,  *)
(* closure is observed after exactly the events of P.  Nothing else comes  *)
(* through the queue: the consumer holds the queue and a nil error.        *)
(***************************************************************************)
C15_EndIndistinguishable ==
    mode = "Fence" =>
        LET P == GoodPrefix(stream)
        IN  /\ IsPrefix(got, P)
            /\ seenClosed => (ch = <<>> /\ chClosed)
            /\ (seenClosed /\ ~rawClosed) => got = P
            /\ (seenClosed \/ got # <<>>) => ret = [ch |-> "ch", err |-> "nil"]

\* Closure is observed after the two events that precede a malformed payload
\* which other payloads follow.
C15_Witness ==
    /\ mode = "Fence"
    /\ HasBad(stream)
    /\ FirstBad(stream) = 3
    /\ Len(stream) = 5
    /\ ~rawClosed
    /\ seenClosed
    /\ got = <<[ID |-> 1], [ID |-> 2]>>

(***************************************************************************)
(* C16: Fence, eventual delivery.  With a fair background task and a       *)
(* consumer that keeps receiving, an established stream that yields only   *)
(* well-formed payloads and then closes leads to the consumer having       *)
(* received the event of every payload the transport yielded, in order,    *)
(* and having observed the queue closed with nothing left in it.  The      *)
(* queue is closed once, by the task's last step, and stays closed;        *)
(* nothing is enqueued after closure.                                      *)
(***************************************************************************)
\* The events of the payloads the transport yielded.
Yielded == [i \in 1..pos |-> [ID |-> stream[i].body]]

C16_EventualDelivery ==
    /\ (mode = "Fence" /\ Established /\ ~HasBad(stream))
          ~> (seenClosed /\ ch = <<>> /\ StreamEnded /\ got = Yielded)
    /\ [](mode = "Fence" => (chClosed <=> task = "done"))
    /\ [][mode = "Fence" =>
            /\ chClosed => (chClosed' /\ Enqueued' = Enqueued)
            /\ (~chClosed /\ chClosed') => (task = "exit" /\ task' = "done")]_vars

C16_Witness ==
    /\ mode = "Fence"
    /\ ~HasBad(stream)
    /\ Len(stream) > ChanCap
    /\ ~rawClosed
    /\ seenClosed
    /\ Len(got) = Len(stream)

(***************************************************************************)
(* C17: the fixed-shape setters mutate in place.  On a Request or a        *)
(* RoamRequest, each of Actions, WithOptions and Format returns the        *)
(* instance it was called on; after the call the instance's own field is   *)
(* exactly the value the call passed (earlier values are gone, not         *)
(* appended to) and every other field is what it was before the call; no   *)
(* second instance ever exists, and every reference obtained along the     *)
(* chain assembles the same command as the latest one.                     *)
(***************************************************************************)
FieldOf(op) ==
    CASE op = "Actions" -> "DetectActions"
      [] op = "WithOptions" -> "Options"
      [] op = "Format" -> "OutputFormat"

C17_SettersInPlace ==
    /\ Len(objs) <= 1
    /\ \A i \in 1..Len(refs) : refs[i] = refs[1]
    /\ \A p \in Held : ObjCommand(objs[p]) = ObjCommand(objs[refs[Len(refs)]])
    /\ last # None =>
          /\ last.ret = last.ref
          /\ objs[last.ref][FieldOf(last.op)] = last.val
          /\ DOMAIN objs[last.ref] = DOMAIN last.before
          /\ \A f \in DOMAIN last.before \ {FieldOf(last.op)} :
                objs[last.ref][f] = last.before[f]

C17_Witness ==
    /\ Len(refs) = 4
    /\ last # None
    /\ last.op = "Actions"
    /\ last.before.DetectActions = <<"exit", "enter", "exit">>
    /\ last.val = <<"enter">>
    /\ Len(last.before.Options) = 3
    /\ ObjCommand(objs[refs[1]]) # ObjCommand(last.before)

(***************************************************************************)
(* C18: the unified builder's Actions sets the detect actions.  When the   *)
(* latest call of the chain is Actions(A) with A not empty, whether or not *)
(* Actions was called earlier in the chain, the assembled command holds    *)
(* FENCE, DETECT and then the token that joins exactly A with ",".         *)
(***************************************************************************)
C18_ActionsSets ==
    (b1 # None /\ Len(calls) > 0 /\ calls[Len(calls)].op = "Actions") =>
        LET A == calls[Len(calls)].actions
        IN  Len(A) > 0 =>
               HasFragment(toCmd(heap, b1).Args,
                           <<"FENCE", "DETECT", CommaJoined(A)>>)

(***************************************************************************)
(* C19: builder equivalence.  A unified builder reached by a chain with at *)
(* most one Actions call, at most one Format call and no notify command,   *)
(* and the fixed-shape builder of the same kind (Request for an area       *)
(* query, RoamRequest for a roam query) constructed from the same key and  *)
(* area (or target, pattern, meters) and given the chain's option          *)
(* fragments, detect actions and format by one WithOptions, one Actions    *)
(* and one Format call, assemble the same command name and the same        *)
(* arguments.                                                              *)
(***************************************************************************)
CallsOf(cs, op) == {i \in 1..Len(cs) : cs[i].op = op}

SingleCalls(cs) ==
    /\ Cardinality(CallsOf(cs, "Actions")) <= 1
    /\ Cardinality(CallsOf(cs, "Format")) <= 1
    /\ CommandsPassed(cs) = <<>>

\* The fixed-shape builder of b's kind, given what the chain cs passed.
FixedFor(b, cs) ==
    IF b.isRoamQuery
    THEN RoamFormat(
             RoamActions(
                 RoamWithOptions(
                     GeofenceRoam(b.key, b.target, b.pattern, b.meters),
                     ChainFragments(cs)),
                 ActionsPassed(cs)),
             FormatPassed(cs))
    ELSE RFormat(
             RActions(
                 RWithOptions(GeofenceWithin(b.key, b.area), ChainFragments(cs)),
                 ActionsPassed(cs)),
             FormatPassed(cs))

Equivalent(b, cs) ==
    SingleCalls(cs) => toCmd(heap, b) = ObjCommand(FixedFor(b, cs))

C19_BuilderEquivalence ==
    /\ b1 # None => Equivalent(b1, calls)
    /\ b2 # None => Equivalent(b2, Append(calls, [op |-> "Limit", n |-> 5]))
    /\ b3 # None => Equivalent(b3, Append(calls, [op |-> "Limit", n |-> 10]))

=============================================================================
